---- MODULE Spec2Model ----
(***************************************************************************)
(* Model of the shell in src/shell.c and its utilities in src/utils.c.     *)
(*                                                                         *)
(* Strings are sequences of bytes (0..255) without their terminating NUL;  *)
(* reading position Len(s)+1 of a C string yields the NUL.                 *)
(*                                                                         *)
(* Six specifications share the variables:                                 *)
(*   SpecDecode   unescape() run one scan step at a time on every string   *)
(*                of a bounded length over a small alphabet;               *)
(*   SpecTokens   getTokens() run one pass of the token loop at a time on  *)
(*                every string of a bounded length;                        *)
(*   SpecCall     getTokens() as one call, also at the token limit;        *)
(*   SpecPath     processProcread() on file names of every length up to    *)
(*                and past the size of its path buffer;                    *)
(*   SpecHistory  readHistory/printHistory/deallocateHistory on a history  *)
(*                file holding a bounded number of lines;                  *)
(*   Spec         the command loop of every shell process: prompt, read,   *)
(*                dispatch, fork, exec, wait.                              *)
(***************************************************************************)
EXTENDS Integers, Sequences, FiniteSets, TLC

VARIABLES
    \* ---- unescape() scan state (SpecDecode)
    dstr,       \* the input string
    dst,        \* the scan state: position, output, quote state, outcome
    dprev,      \* the scan state before the last step (observation)
    \* ---- getTokens() state (SpecTokens)
    tk,         \* the run of the tokenizer on a string
    \* ---- processProcread() call (SpecPath)
    pr,         \* the file name argument and what the call did
    \* ---- readHistory() state (SpecHistory)
    hrun,       \* the run of the history built-in on a file
    \* ---- the shell processes (Spec)
    status,     \* process -> where it is in commandLoop
    parent,     \* process -> the process that forked it (0: none)
    command,    \* process -> the decoded, trimmed command it holds
    histfile,   \* the bytes of the history file
    nread,      \* number of lines read from standard input so far
    eof,        \* standard input has reached end-of-input
    cwd,        \* the working directory the shell was started in
    execFailed, \* the processes whose execvp has failed
    ev          \* process -> what its last loop step did (observation)

vars == <<dstr, dst, dprev, tk, pr, hrun, status, parent, command, histfile, nread, eof, cwd,
         execFailed, ev>>

(***************************************************************************)
(* Bounds                                                                  *)
(***************************************************************************)
MaxLen == 4          \* length of the strings given to the decoder
MaxHistLines == 21   \* lines in the history file given to readHistory
MaxProcs == 3        \* processes (the first shell and its descendants)
MaxReads == 2        \* lines read from standard input by all processes
MaxName == 258       \* letters in the file names given to processProcread

(***************************************************************************)
(* Characters                                                              *)
(***************************************************************************)
\* The character constants the code uses, as byte values ("BEL", "BS" and
\* "VT" name the characters C writes '\a', '\b' and '\v').
Ord(c) ==
    CASE c = "BEL" -> 7   [] c = "BS" -> 8   [] c = "\t" -> 9   [] c = "\n" -> 10
      [] c = "VT" -> 11  [] c = "\f" -> 12  [] c = "\r" -> 13  [] c = " " -> 32
      [] c = "!" -> 33   [] c = "\"" -> 34  [] c = "$" -> 36   [] c = "'" -> 39
      [] c = "*" -> 42   [] c = "." -> 46   [] c = "/" -> 47   [] c = "0" -> 48
      [] c = "1" -> 49   [] c = "2" -> 50   [] c = "3" -> 51   [] c = "4" -> 52
      [] c = "7" -> 55   [] c = "8" -> 56   [] c = "9" -> 57   [] c = "?" -> 63
      [] c = "A" -> 65   [] c = "F" -> 70   [] c = "G" -> 71   [] c = "X" -> 88
      [] c = "\\" -> 92  [] c = "a" -> 97   [] c = "b" -> 98   [] c = "c" -> 99
      [] c = "d" -> 100  [] c = "e" -> 101  [] c = "f" -> 102  [] c = "g" -> 103
      [] c = "h" -> 104  [] c = "i" -> 105  [] c = "l" -> 108  [] c = "m" -> 109
      [] c = "n" -> 110  [] c = "q" -> 113  [] c = "u" -> 117  [] c = "z" -> 122
      [] c = "o" -> 111  [] c = "p" -> 112  [] c = "r" -> 114  [] c = "s" -> 115
      [] c = "t" -> 116  [] c = "v" -> 118  [] c = "w" -> 119  [] c = "x" -> 120
      [] c = "y" -> 121

\* A string literal: the bytes of its characters.
S(cs) == [i \in DOMAIN cs |-> Ord(cs[i])]

\* The one element of a singleton.  The({F(x) : x \in {e}}) is F(e) with e
\* evaluated once; the loops below pass their state on this way.
The(set) == CHOOSE x \in set : TRUE

\* s[i] of a NUL-terminated string: the NUL at its end.
At(s, i) == IF i >= 1 /\ i <= Len(s) THEN s[i] ELSE 0

\* (char)tmp: a byte keeps the low 8 bits.
ToChar(tmp) == tmp % 256

\* isspace() in the C locale.
IsSpace(c) == c \in {9, 10, 11, 12, 13, 32}

(***************************************************************************)
(* unescape (src/utils.c)                                                  *)
(***************************************************************************)
IsOctal(c) == c >= Ord("0") /\ c <= Ord("7")

\* HexVal with the upper-case digits valued from 'A' as 0.
HexVal_UpperFromZero(c) ==
    IF c >= Ord("0") /\ c <= Ord("9") THEN c - Ord("0")
    ELSE IF c >= Ord("a") /\ c <= Ord("f") THEN c - Ord("a") + 10
    ELSE IF c >= Ord("A") /\ c <= Ord("F") THEN c - Ord("A")
    ELSE -1

\* The value of a hex digit, or -1 for any other character.
HexVal(c) ==
    IF c >= Ord("0") /\ c <= Ord("9") THEN c - Ord("0")
    ELSE IF c >= Ord("a") /\ c <= Ord("f") THEN c - Ord("a") + 10
    ELSE IF c >= Ord("A") /\ c <= Ord("F") THEN c - Ord("A") + 10
    ELSE -1

\* The single-character escapes of the switch, escaped character -> byte.
SimpleEscape(c) ==
    CASE c = Ord("n") -> Ord("\n")   [] c = Ord("a") -> Ord("BEL")
      [] c = Ord("b") -> Ord("BS")   [] c = Ord("r") -> Ord("\r")
      [] c = Ord("\\") -> Ord("\\")  [] c = Ord("f") -> Ord("\f")
      [] c = Ord("v") -> Ord("VT")   [] c = Ord("'") -> Ord("'")
      [] c = Ord("\"") -> Ord("\"")  [] c = Ord("?") -> Ord("?")
      [] c = Ord("*") -> Ord("*")    [] c = Ord("$") -> Ord("$")
      [] c = Ord("t") -> Ord("\t")   [] c = Ord(" ") -> Ord(" ")
      [] c = Ord("!") -> Ord("!")
      [] OTHER -> -1

\* The state unescape starts its scan in.
\* pos: index of *str; out: bytes written through unesc; quoted: 0 or the
\* open quote character; stat: "scan", "done" (returns rv) or "null"
\* (returns NULL); errf: the lines written to errf, without "shell error: ".
UnescapeStart == [pos |-> 1, out |-> <<>>, quoted |-> 0, stat |-> "scan", errf |-> <<>>]

\* OctalEscape with the second digit shifted by 4 instead of 3.
OctalEscape_Shift4(str, st, cur) ==
    LET c2 == At(str, st.pos)
        c3 == At(str, st.pos + 1)
        tmp == (cur - Ord("0")) * 64 + (c2 - Ord("0")) * 16 + (c3 - Ord("0"))
    IN  IF ~IsOctal(c2) THEN [st EXCEPT !.pos = st.pos + 1, !.stat = "null"]
        ELSE IF ~IsOctal(c3) THEN [st EXCEPT !.pos = st.pos + 2, !.stat = "null"]
        ELSE [st EXCEPT !.pos = st.pos + 2, !.out = Append(st.out, ToChar(tmp))]

\* The octal case of the switch: cur is the first digit, st.pos is after it.
OctalEscape(str, st, cur) ==
    LET c2 == At(str, st.pos)
        c3 == At(str, st.pos + 1)
        \* the three shifted digits have no bit in common: | is +
        tmp == (cur - Ord("0")) * 64 + (c2 - Ord("0")) * 8 + (c3 - Ord("0"))
    IN  IF ~IsOctal(c2) THEN [st EXCEPT !.pos = st.pos + 1, !.stat = "null"]
        ELSE IF ~IsOctal(c3) THEN [st EXCEPT !.pos = st.pos + 2, !.stat = "null"]
        ELSE [st EXCEPT !.pos = st.pos + 2, !.out = Append(st.out, ToChar(tmp))]

\* The hex case of the switch: st.pos is after the x or X.
HexEscape(str, st) ==
    LET c2 == At(str, st.pos)
        c3 == At(str, st.pos + 1)
        tmp == HexVal(c2) * 16 + HexVal(c3)
    IN  IF HexVal(c2) < 0 THEN [st EXCEPT !.pos = st.pos + 1, !.stat = "null"]
        ELSE IF HexVal(c3) < 0 THEN [st EXCEPT !.pos = st.pos + 2, !.stat = "null"]
        ELSE [st EXCEPT !.pos = st.pos + 2, !.out = Append(st.out, ToChar(tmp))]

\* An escape outside quotes: st.pos is after the backslash.
UnquotedEscape(str, st) ==
    LET cur == At(str, st.pos)
        nx  == [st EXCEPT !.pos = st.pos + 1]
    IN  IF cur = 0
        THEN [nx EXCEPT !.stat = "null",
                        !.errf = Append(st.errf, "illegal escape sequence")]
        ELSE IF SimpleEscape(cur) >= 0
             THEN [nx EXCEPT !.out = Append(st.out, SimpleEscape(cur))]
        ELSE IF IsOctal(cur) THEN OctalEscape(str, nx, cur)
        ELSE IF cur \in {Ord("x"), Ord("X")} THEN HexEscape(str, nx)
        ELSE [nx EXCEPT !.out = Append(st.out, cur)]

\* QuotedEscape writing the kept backslash twice.
QuotedEscape_BackslashDoubled(str, st) ==
    LET cur == At(str, st.pos)
        nx  == [st EXCEPT !.pos = st.pos + 1]
    IN  IF cur = 0
        THEN [nx EXCEPT !.stat = "null",
                        !.errf = Append(st.errf, "invalid escape sequence")]
        ELSE IF cur # st.quoted
             THEN [nx EXCEPT !.out = st.out \o <<Ord("\\"), Ord("\\"), cur>>]
        ELSE [nx EXCEPT !.out = Append(st.out, cur)]

\* An escape inside quotes: st.pos is after the backslash.
QuotedEscape(str, st) ==
    LET cur == At(str, st.pos)
        nx  == [st EXCEPT !.pos = st.pos + 1]
    IN  IF cur = 0
        THEN [nx EXCEPT !.stat = "null",
                        !.errf = Append(st.errf, "invalid escape sequence")]
        ELSE IF cur # st.quoted
             THEN [nx EXCEPT !.out = st.out \o <<Ord("\\"), cur>>]
        ELSE [nx EXCEPT !.out = Append(st.out, cur)]

\* CopyChar writing the character twice.
CopyChar_Twice(st, cur) == [st EXCEPT !.out = st.out \o <<cur, cur>>]

\* "*unesc++ = cur" at the end of the loop body: the character is copied.
CopyChar(st, cur) == [st EXCEPT !.out = Append(st.out, cur)]

\* UnescapeStep without the check for an open quote after the loop.
UnescapeStep_QuoteIgnored(str, st) ==
    LET cur == At(str, st.pos)
        nx  == [st EXCEPT !.pos = st.pos + 1]
    IN  IF cur = 0 THEN [st EXCEPT !.stat = "done"]
        ELSE IF st.quoted = 0 /\ cur = Ord("\\") THEN UnquotedEscape(str, nx)
        ELSE IF st.quoted # 0 /\ cur = Ord("\\") THEN QuotedEscape(str, nx)
        ELSE IF st.quoted = 0 /\ cur \in {Ord("'"), Ord("\"")}
             THEN [nx EXCEPT !.quoted = cur]
        ELSE IF st.quoted # 0 /\ cur = st.quoted THEN [nx EXCEPT !.quoted = 0]
        ELSE CopyChar(nx, cur)

\* One pass of the scan loop, or the code after the loop when *str is NUL.
UnescapeStep(str, st) ==
    LET cur == At(str, st.pos)
        nx  == [st EXCEPT !.pos = st.pos + 1]
    IN  IF cur = 0
        THEN IF st.quoted # 0
             THEN [st EXCEPT !.stat = "null",
                             !.errf = Append(st.errf, "unterminated quote")]
             ELSE [st EXCEPT !.stat = "done"]
        ELSE IF st.quoted = 0 /\ cur = Ord("\\") THEN UnquotedEscape(str, nx)
        ELSE IF st.quoted # 0 /\ cur = Ord("\\") THEN QuotedEscape(str, nx)
        ELSE IF st.quoted = 0 /\ cur \in {Ord("'"), Ord("\"")}
             THEN [nx EXCEPT !.quoted = cur]
        ELSE IF st.quoted # 0 /\ cur = st.quoted THEN [nx EXCEPT !.quoted = 0]
        ELSE CopyChar(nx, cur)

RECURSIVE UnescapeFrom(_, _)
UnescapeFrom(str, st) ==
    IF st.stat # "scan" THEN st
    ELSE The({UnescapeFrom(str, nx) : nx \in {UnescapeStep(str, st)}})

\* unescape(str, errf): the final scan state.
Unescape(str) == UnescapeFrom(str, UnescapeStart)

\* The C string held in a buffer: its bytes up to the first NUL.
RECURSIVE CStr(_)
CStr(buf) ==
    IF buf = <<>> \/ Head(buf) = 0 THEN <<>>
    ELSE The({<<Head(buf)>> \o CStr(t) : t \in {Tail(buf)}})

(***************************************************************************)
(* trim, getProgramName, the tokenizer (src/utils.c, src/shell.c)          *)
(***************************************************************************)
\* trimLeading: drop the leading isspace() characters.
RECURSIVE trimLeading(_)
trimLeading(s) ==
    IF s # <<>> /\ IsSpace(Head(s)) THEN The({trimLeading(t) : t \in {Tail(s)}}) ELSE s

\* trimTrailing: NUL-terminate after the last non-isspace() character.
RECURSIVE trimTrailing(_)
trimTrailing(s) ==
    IF s # <<>> /\ IsSpace(s[Len(s)])
    THEN The({trimTrailing(t) : t \in {SubSeq(s, 1, Len(s) - 1)}})
    ELSE s

trim(s) == trimTrailing(trimLeading(s))

\* getProgramName: the characters before the first isspace() character.
RECURSIVE getProgramName(_)
getProgramName(cmd) ==
    IF cmd = <<>> \/ IsSpace(Head(cmd)) THEN <<>>
    ELSE The({<<Head(cmd)>> \o getProgramName(t) : t \in {Tail(cmd)}})

\* The tokenizer's separators: space and tab only.
IsBlank(c) == c \in {Ord(" "), Ord("\t")}

\* while (*p && (*p == ' ' || *p == '\t')) p++;
RECURSIVE SkipBlanks(_, _)
SkipBlanks(mem, p) ==
    IF IsBlank(At(mem, p)) THEN The({SkipBlanks(mem, q) : q \in {p + 1}}) ELSE p

\* One pass of the token loop of parse_quoted_tokens.
\* t.mem: the bytes at str (the string, its NUL and the memory after it);
\* t.p: index of p; t.toks: the indexes stored in tokens[]; t.inq: in_quote.
TokenLoopBody(t) ==
    LET q  == At(t.mem, t.p) = Ord("\"")
        inq == IF q THEN ~t.inq ELSE t.inq
        p1 == IF q THEN t.p + 1 ELSE t.p
    IN  IF ~inq /\ IsBlank(At(t.mem, p1))
        THEN LET mem2 == [t.mem EXCEPT ![p1] = 0]
                 p2   == SkipBlanks(mem2, p1 + 1)
             IN  [mem |-> mem2, p |-> p2, inq |-> inq,
                  toks |-> IF At(mem2, p2) # 0 THEN Append(t.toks, p2) ELSE t.toks]
        ELSE [t EXCEPT !.p = p1 + 1, !.inq = inq]

\* The first n passes of the token loop, or all of them when the loop ends
\* earlier (the passes are split in two halves to keep the evaluation of a
\* long loop shallow).
RECURSIVE TokenPasses(_, _, _)
TokenPasses(t, max_tokens, n) ==
    IF n = 0 THEN t
    ELSE IF n = 1
    THEN IF At(t.mem, t.p) # 0 /\ Len(t.toks) < max_tokens THEN TokenLoopBody(t) ELSE t
    ELSE The({TokenPasses(half, max_tokens, n - n \div 2) :
                 half \in {TokenPasses(t, max_tokens, n \div 2)}})

\* The token loop: every pass moves p forward and the loop ends at a NUL, so
\* it makes at most as many passes as there are bytes.
TokenLoop(t, max_tokens) ==
    The({TokenPasses(t0, max_tokens, Len(t0.mem)) : t0 \in {t}})

\* strchr(s, '"') on the string at index i: the index of the quote, 0 if none.
RECURSIVE StrChrQuote(_, _)
StrChrQuote(mem, i) ==
    IF At(mem, i) = 0 THEN 0
    ELSE IF mem[i] = Ord("\"") THEN i
    ELSE The({StrChrQuote(mem, j) : j \in {i + 1}})

\* parse_quoted_tokens up to its token loop: the leading blanks are skipped
\* and the first token is captured.
TokenStart(mem) ==
    LET p0 == SkipBlanks(mem, 1)
    IN  [mem |-> mem, p |-> p0, inq |-> FALSE,
         toks |-> IF At(mem, p0) # 0 THEN <<p0>> ELSE <<>>]

\* parse_quoted_tokens after its token loop: when the loop ended inside a
\* quote, the last token is cut at its first quote character.
TokenEnd(t1) ==
    LET eq == IF t1.inq THEN StrChrQuote(t1.mem, t1.toks[Len(t1.toks)]) ELSE 0
    IN  IF eq # 0 THEN [t1 EXCEPT !.mem[eq] = 0] ELSE t1

\* parse_quoted_tokens(str, tokens, max_tokens), str being the bytes mem.
parse_quoted_tokens(mem, max_tokens) ==
    TokenEnd(TokenLoop(TokenStart(mem), max_tokens))

\* The C string at index i of mem.
StrAt(mem, i) == CStr(SubSeq(mem, i, Len(mem)))

TOKEN_LIMIT == 1000

\* The tokens as strings, once parse_quoted_tokens has returned in state t.
TokenStrings(t) == [i \in 1..Len(t.toks) |-> StrAt(t.mem, t.toks[i])]

\* getTokens: the tokens as strings; numTokens is the length of the result.
\* marker: the index of result[] at which the NULL is stored.
\* overrun: p was moved past the string's terminating NUL.
getTokens(string, tail) ==
    LET mem == string \o <<0>> \o tail
        t   == parse_quoted_tokens(mem, TOKEN_LIMIT)
    IN  [args |-> TokenStrings(t), overrun |-> t.p > Len(string) + 1,
         marker |-> Len(t.toks)]

\* getArgs: getTokens on a copy of the command; tail is what the heap holds
\* after the copy.
getArgs(cmd, tail) == getTokens(cmd, tail)

\* What the heap may hold after a malloc'ed string.
HeapTails == {<<>>, S(<<"\"", " ", "y">>)}

(***************************************************************************)
(* The history file and the history built-in (src/shell.c)                 *)
(***************************************************************************)
FILE_BUFFER_SIZE == 8192

\* The number of entries processCommand asks readHistory for.
NumEntries == 10

\* appendHistory: fputs(entry) at the end of the file, no newline added.
appendHistory(file, entry) == file \o entry

\* fgets(buffer, size, fp): the length of the next chunk of file, which ends
\* after a newline, after size - 1 characters or at the end of the file.
RECURSIVE FgetsLen(_, _, _)
FgetsLen(file, k, size) ==
    IF k >= Len(file) \/ k >= size - 1 THEN k
    ELSE IF file[k + 1] = Ord("\n") THEN k + 1
    ELSE The({FgetsLen(file, j, size) : j \in {k + 1}})

\* The chunks the successive fgets calls of readHistory return.
RECURSIVE FgetsLines(_)
FgetsLines(file) ==
    IF file = <<>> THEN <<>>
    ELSE The({<<SubSeq(file, 1, k)>> \o The({FgetsLines(rest) :
                                                rest \in {SubSeq(file, k + 1, Len(file))}}) :
              k \in {FgetsLen(file, 0, FILE_BUFFER_SIZE)}})

\* The state of the history built-in after readHistory has opened the file.
\* file: the bytes of the file; lines: the chunks still to be read; text: allocation -> its string;
\* result: the slots of result[] (slot i of the code is result[i + 1]), each
\* an allocation or 0 for NULL; frees: allocation -> times freed;
\* printed: the strings written by printHistory, <<0>> standing for the
\* bytes of a freed allocation; i: the index of the running loop.
HistoryStart(file) ==
    [pc |-> "read", file |-> file, lines |-> FgetsLines(file), text |-> <<>>, result |-> <<>>,
     numRead |-> 0, numAllocated |-> NumEntries, frees |-> <<>>,
     printed |-> <<>>, i |-> 0]

\* One pass of the fgets loop of readHistory.
ReadEntry(h) ==
    [h EXCEPT !.lines = Tail(h.lines),
              !.numAllocated = IF h.numRead = h.numAllocated
                               THEN h.numAllocated + NumEntries ELSE h.numAllocated,
              !.text = Append(h.text, trimTrailing(Head(h.lines))),
              !.frees = Append(h.frees, 0),
              !.result = Append(SubSeq(h.result, 1, h.numRead), Len(h.text) + 1),
              !.numRead = h.numRead + 1]

\* free(ptr) of an allocation.
Free(frees, a) == [frees EXCEPT ![a] = frees[a] + 1]

\* "Remove current (last) command from results".
DropCurrent(h) ==
    LET n == h.numRead - 1
    IN  [h EXCEPT !.numRead = n,
                  !.frees = Free(h.frees, h.result[n + 1]),
                  !.result[n + 1] = 0,
                  !.i = 0,
                  !.pc = IF n > NumEntries THEN "limit" ELSE "print"]

\* One pass of the "Limit result if necessary" loop; after the last one
\* numRead becomes numEntries and readHistory returns.
LimitEntry(h) ==
    LET adjust == h.numRead - NumEntries
        h1 == IF h.i < NumEntries
              THEN [h EXCEPT !.frees = Free(h.frees, h.result[h.i + 1]),
                             !.result[h.i + 1] = h.result[h.i + adjust + 1]]
              ELSE [h EXCEPT !.result[h.i + 1] = 0]
    IN  IF h.i + 1 < h.numRead
        THEN [h1 EXCEPT !.i = h.i + 1]
        ELSE [h1 EXCEPT !.i = 0, !.numRead = NumEntries, !.pc = "print"]

\* An allocation that has been freed: reading or freeing it is undefined.
Dangling(h, a) == a # 0 /\ h.frees[a] > 0

\* One pass of the printHistory loop; intact tells whether a freed entry
\* still holds its string.
PrintEntry(h, intact) ==
    LET a == h.result[h.i + 1]
        str == IF a = 0 \/ (Dangling(h, a) /\ ~intact) THEN <<0>> ELSE h.text[a]
    IN  [h EXCEPT !.printed = Append(h.printed, str), !.i = h.i + 1]

\* One pass of the deallocateHistory loop; abort tells whether the allocator
\* stops the process on a second free of the same allocation.
DeallocEntry(h, abort) ==
    LET a == h.result[h.i + 1]
    IN  IF a = 0 THEN [h EXCEPT !.i = h.i + 1]
        ELSE IF Dangling(h, a) /\ abort THEN [h EXCEPT !.pc = "crashed"]
        ELSE [h EXCEPT !.frees = Free(h.frees, a), !.i = h.i + 1]

\* The history built-in, one loop pass at a time.
HistoryStep(h, intact, abort) ==
    CASE h.pc = "read" ->
            IF h.lines # <<>> THEN ReadEntry(h) ELSE DropCurrent(h)
      [] h.pc = "limit" -> LimitEntry(h)
      [] h.pc = "print" ->
            IF h.i < h.numRead THEN PrintEntry(h, intact)
            ELSE [h EXCEPT !.i = 0, !.pc = "dealloc"]
      [] h.pc = "dealloc" ->
            IF h.i < h.numRead THEN DeallocEntry(h, abort)
            ELSE [h EXCEPT !.pc = "done"]
      [] OTHER -> h

\* The built-in run to its end, every undefined step taking the same outcome.
RECURSIVE HistoryRun(_, _, _)
HistoryRun(h, intact, abort) ==
    IF h.pc \in {"done", "crashed"} THEN h
    ELSE The({HistoryRun(nx, intact, abort) : nx \in {HistoryStep(h, intact, abort)}})

(***************************************************************************)
(* procread (src/shell.c)                                                  *)
(***************************************************************************)
\* strncmp(prefix, s, Len(prefix)) == 0
StartsWith(s, prefix) ==
    Len(s) >= Len(prefix) /\ SubSeq(s, 1, Len(prefix)) = prefix

\* "Format file path": the string processProcread passes to fopen.
FormatPath(fileName) ==
    IF StartsWith(fileName, S(<<"p", "r", "o", "c", "/">>)) THEN fileName
    ELSE S(<<"/", "p", "r", "o", "c", "/">>) \o fileName

\* The components of a path, split at '/': the characters between one cut
\* (the start, a '/', the end) and the next.
Components(path) ==
    LET cuts == {0, Len(path) + 1} \cup {i \in 1..Len(path) : path[i] = Ord("/")}
        cut(k) == CHOOSE i \in cuts : Cardinality({j \in cuts : j < i}) = k - 1
    IN  [k \in 1..(Cardinality(cuts) - 1) |-> SubSeq(path, cut(k) + 1, cut(k + 1) - 1)]

\* Path resolution by the system: "" and "." are skipped, ".." leaves the
\* directory (the root is its own parent).
RECURSIVE Walk(_, _)
Walk(dir, comps) ==
    IF comps = <<>> THEN dir
    ELSE LET c == Head(comps)
             to == IF c = <<>> \/ c = S(<<".">>) THEN dir
                   ELSE IF c = S(<<".", ".">>)
                        THEN IF dir = <<>> THEN dir ELSE SubSeq(dir, 1, Len(dir) - 1)
                   ELSE Append(dir, c)
         IN  The({Walk(t[1], t[2]) : t \in {<<to, Tail(comps)>>}})

\* The file fopen(filename) names for a process whose working directory is
\* dir: the directories from the root to the file.
Resolve(dir, filename) ==
    Walk(IF At(filename, 1) = Ord("/") THEN <<>> ELSE dir, Components(filename))

\* The fixed root directory of procread.
InsideRoot(file) == file # <<>> /\ file[1] = S(<<"p", "r", "o", "c">>)

\* The size of the array processProcread formats the path in.
FILENAME_SIZE == 256

\* processProcread(fileName): its result, the diagnostic it prints, the
\* string it writes into filename[] (without the NUL) and the file it
\* opens, if any; exists tells whether fopen finds the file.
processProcread(dir, fileName, exists) ==
    IF fileName = <<>>
    THEN [result |-> 1, err |-> "file name missing", didOpen |-> FALSE, opened |-> <<>>,
          filename |-> <<>>]
    ELSE IF fileName[1] = Ord("/")
    THEN [result |-> 1, err |-> "only relative file paths are supported",
          didOpen |-> FALSE, opened |-> <<>>,
          filename |-> <<>>]
    ELSE IF ~exists
    THEN [result |-> 1, err |-> "Process file not found", didOpen |-> FALSE, opened |-> <<>>,
          filename |-> FormatPath(fileName)]
    ELSE [result |-> 0, err |-> "", didOpen |-> TRUE,
          opened |-> Resolve(dir, FormatPath(fileName)),
          filename |-> FormatPath(fileName)]

(***************************************************************************)
(* The input lines of the model                                            *)
(***************************************************************************)
NL == S(<<"\n">>)
Exit == S(<<"e", "x", "i", "t">>)
HistoryCmd == S(<<"h", "i", "s", "t", "o", "r", "y">>)
Procread == S(<<"p", "r", "o", "c", "r", "e", "a", "d">>)
Ls == S(<<"l", "s">>)

\* The lines standard input can deliver, each ended by its newline.
Lines ==
    { Exit \o NL,
      HistoryCmd \o NL,
      Ls \o NL,
      NL,
      S(<<"\\", "\"">>) \o Ls \o NL,                    \* \"ls
      S(<<"'">>) \o Ls \o NL,                           \* 'ls
      S(<<"\\", "1", "8">>) \o NL,                      \* \18
      S(<<"\\", "x", "g">>) \o NL,                      \* \xg
      S(<<"l", "\\", "n", "s">>) \o NL,                 \* l\ns
      Exit \o S(<<" ">>) \o Ls \o NL,                     \* exit ls
      Procread \o NL,
      Procread \o S(<<" ", "a">>) \o NL,
      Procread \o S(<<" ", "a", " ", "b">>) \o NL,
      Procread \o S(<<" ", "/", "a">>) \o NL,
      Procread \o S(<<" ", ".", ".", "/", ".", ".", "/", "a">>) \o NL,
      Procread \o S(<<" ", "p", "r", "o", "c", "/", "a">>) \o NL }

\* A last line that end-of-input cuts before its newline.
LastLines == { Exit, S(<<"\\">>) }

\* readInput returns its buffer unwritten when fgets meets end-of-input at
\* once: what the unwritten buffer may hold.
Unwritten == { <<>>, Ls \o NL }

\* The directories the shell may be started in: the root and /home.
Cwds == { <<>>, <<S(<<"h", "o", "m", "e">>)>> }

(***************************************************************************)
(* The processes (src/shell.c)                                             *)
(***************************************************************************)
Procs == 1..MaxProcs

\* A process that has ended: by exit(EXIT_SUCCESS), by a fatal signal, or
\* as the program execvp started; "reaped" once its parent's wait returned.
Ended == {"exited", "crashed", "dead", "reaped"}

Live(p) == status[p] \notin Ended \cup {"unborn"}

\* No observation.  got: what readInput got from standard input, "line" (a
\* line and its newline), "last" (a line cut by end-of-input) or "none"
\* (end-of-input at once); forks: the calls of fork() made.
NoEv ==
    [pid |-> 0, op |-> "", got |-> "", forks |-> 0, cmd |-> <<>>, kind |-> "", decoded |-> TRUE, child |-> 0,
     didOpen |-> FALSE, opened |-> <<>>, err |-> "", printed |-> <<>>,
     logged |-> <<>>, program |-> <<>>, args |-> <<>>, overrun |-> FALSE]

Ev(p, op) == [NoEv EXCEPT !.pid = p, !.op = op]

ShellUnchanged == UNCHANGED <<dstr, dst, dprev, tk, pr, hrun>>

\* writePrompt at the top of the loop.
WritePrompt(p) ==
    /\ status[p] = "prompt"
    /\ status' = [status EXCEPT ![p] = "read"]
    /\ ev' = Ev(p, "prompt")
    /\ UNCHANGED <<parent, command, histfile, nread, eof, cwd, execFailed>>
    /\ ShellUnchanged

\* readCommand once readInput has returned line: the line is appended to the
\* history, decoded and trimmed.  When unescape returns NULL, trim reads
\* through the null pointer: the process is killed, or the read goes
\* unnoticed and commandLoop skips the NULL command.
ReadLine(p, line, killed, got) ==
    \E u \in {Unescape(line)} :
        /\ histfile' = appendHistory(histfile, line)
        /\ nread' = nread + 1
        /\ IF u.stat = "null"
           THEN /\ status' = [status EXCEPT ![p] = IF killed THEN "crashed" ELSE "prompt"]
                /\ command' = [command EXCEPT ![p] = <<>>]
           ELSE /\ status' = [status EXCEPT ![p] = "dispatch"]
                /\ command' = [command EXCEPT ![p] = trim(CStr(u.out))]
        /\ ev' = [Ev(p, "read") EXCEPT !.cmd = line, !.decoded = u.stat # "null",
                                       !.got = got]

\* readCommand: readInput blocks until standard input delivers a line or
\* its end.
ReadCommand(p) ==
    /\ status[p] = "read"
    /\ nread < MaxReads
    /\ \E killed \in BOOLEAN :
          \/ /\ ~eof
             /\ \E line \in Lines : ReadLine(p, line, killed, "line")
             /\ eof' = eof
          \/ /\ ~eof
             /\ \E line \in LastLines : ReadLine(p, line, killed, "last")
             /\ eof' = TRUE
          \/ /\ \E line \in Unwritten : ReadLine(p, line, killed, "none")
             /\ eof' = TRUE
    /\ UNCHANGED <<parent, cwd, execFailed>>
    /\ ShellUnchanged

\* The branch of processCommand a command takes.
CommandKind(cmd) ==
    IF cmd = Exit THEN "exit"
    ELSE IF getProgramName(cmd) = Procread THEN "procread"
    ELSE IF getProgramName(cmd) = HistoryCmd THEN "history"
    ELSE IF Len(cmd) > 0 THEN "system"
    ELSE "empty"

\* "Validate command" of the system branch: the diagnostic printed.
ValidateCommand(cmd) ==
    IF cmd[1] = Ord("\"") \/ cmd[1] = Ord("'") THEN "invalid command" ELSE ""

\* ProcreadBranch without the check for extra arguments.
ProcreadBranch_NoUpperCheck(dir, args, exists) ==
    IF Len(args) < 2
    THEN [result |-> 1, err |-> "file argument required", didOpen |-> FALSE, opened |-> <<>>,
          filename |-> <<>>]
    ELSE processProcread(dir, args[2], exists)

\* The procread branch: the argument checks, then processProcread.
ProcreadBranch(dir, args, exists) ==
    IF Len(args) < 2
    THEN [result |-> 1, err |-> "file argument required", didOpen |-> FALSE, opened |-> <<>>,
          filename |-> <<>>]
    ELSE IF Len(args) > 2
    THEN [result |-> 1, err |-> "only 1 argument is permitted", didOpen |-> FALSE,
          opened |-> <<>>, filename |-> <<>>]
    ELSE processProcread(dir, args[2], exists)

\* The process fork() creates: the first one not yet used.
NewProc == CHOOSE q \in Procs : status[q] = "unborn" /\ \A r \in Procs : r < q => status[r] # "unborn"

\* ForkedStatus with a parent that returns to the loop without waiting.
ForkedStatus_ParentLoops(p, q) == [status EXCEPT ![p] = "prompt", ![q] = "forked"]

\* fork() has returned in processSystemCommand: the parent p goes to
\* wait(NULL), the child q to getProgramName, getArgs and execvp.
ForkedStatus(p, q) == [status EXCEPT ![p] = "wait", ![q] = "forked"]

\* AfterCommand with the loop ended by any non-zero result.
AfterCommand_NonZero(p, result) ==
    /\ status' = [status EXCEPT ![p] = IF result # 0 THEN "exited" ELSE "prompt"]
    /\ command' = [command EXCEPT ![p] = <<>>]
    /\ UNCHANGED <<parent>>

\* commandLoop after processCommand returned result: the loop ends and
\* exitShell runs when it is negative.
AfterCommand(p, result) ==
    /\ status' = [status EXCEPT ![p] = IF result < 0 THEN "exited" ELSE "prompt"]
    /\ command' = [command EXCEPT ![p] = <<>>]
    /\ UNCHANGED <<parent>>

\* processCommand, up to the point where the process is blocked in wait().
ProcessCommand(p) ==
    /\ status[p] = "dispatch"
    /\ \E cmd \in {command[p]} :
       \E kind \in {CommandKind(cmd)} :
       \E e \in {[Ev(p, "dispatch") EXCEPT !.cmd = cmd, !.kind = kind]} :
           \/ /\ kind = "exit"
              /\ AfterCommand(p, -1)
              /\ ev' = e
           \/ /\ kind = "procread"
              /\ \E tail \in HeapTails, exists \in BOOLEAN :
                 \E a \in {getArgs(cmd, tail)} :
                 \E r \in {ProcreadBranch(cwd, a.args, exists)} :
                        /\ AfterCommand(p, r.result)
                        /\ ev' = [e EXCEPT !.args = a.args, !.overrun = a.overrun,
                                           !.err = r.err, !.didOpen = r.didOpen,
                                           !.opened = r.opened]
           \/ /\ kind = "history"
              /\ \E intact \in BOOLEAN, abort \in BOOLEAN :
                 \E h \in {HistoryRun(HistoryStart(histfile), intact, abort)} :
                        /\ IF h.pc = "crashed"
                           THEN /\ status' = [status EXCEPT ![p] = "crashed"]
                                /\ command' = [command EXCEPT ![p] = <<>>]
                                /\ UNCHANGED parent
                           ELSE AfterCommand(p, 0)
                        /\ ev' = [e EXCEPT !.printed = h.printed, !.logged = h.file]
           \/ /\ kind = "system"
              /\ \/ \* fork() fails
                    /\ AfterCommand(p, 1)
                    /\ ev' = [e EXCEPT !.err = ValidateCommand(cmd), !.forks = 1]
                 \/ \* fork() returns in the parent and in the child
                    /\ \E q \in Procs : status[q] = "unborn"
                    /\ status' = ForkedStatus(p, NewProc)
                    /\ parent' = [parent EXCEPT ![NewProc] = p]
                    /\ command' = [command EXCEPT ![NewProc] = cmd]
                    /\ ev' = [e EXCEPT !.err = ValidateCommand(cmd), !.forks = 1,
                                       !.child = NewProc]
           \/ /\ kind = "empty"
              /\ AfterCommand(p, 0)
              /\ ev' = e
    /\ UNCHANGED <<histfile, nread, eof, cwd, execFailed>>
    /\ ShellUnchanged

\* The child of processSystemCommand: it tokenizes the command and calls
\* execvp, which returns only when it fails; the child then returns 1 to
\* processCommand and from there to commandLoop.
Exec(q) ==
    /\ status[q] = "forked"
    /\ \E tail \in HeapTails, ok \in BOOLEAN :
          \E a \in {getArgs(command[q], tail)} :
              /\ status' = [status EXCEPT ![q] = IF ok THEN "program" ELSE "prompt"]
              /\ execFailed' = IF ok THEN execFailed ELSE execFailed \cup {q}
              /\ ev' = [Ev(q, "exec") EXCEPT !.cmd = command[q],
                                             !.program = getProgramName(command[q]),
                                             !.args = a.args, !.overrun = a.overrun,
                                             !.err = IF ok THEN "" ELSE "command execution failed"]
    /\ command' = [command EXCEPT ![q] = <<>>]
    /\ UNCHANGED <<parent, histfile, nread, eof, cwd>>
    /\ ShellUnchanged

\* The program execvp started comes to its end.
ProgramExit(q) ==
    /\ status[q] = "program"
    /\ status' = [status EXCEPT ![q] = "dead"]
    /\ ev' = Ev(q, "programexit")
    /\ UNCHANGED <<parent, command, histfile, nread, eof, cwd, execFailed>>
    /\ ShellUnchanged

\* WaitReturns for a wait that does not block.
WaitReturns_NoHang(q) == TRUE

\* wait(NULL) returns for a child that has terminated.
WaitReturns(q) == status[q] \in {"exited", "crashed", "dead"}

\* The parent of processSystemCommand: blocked in wait(NULL) until its
\* child q has terminated, then back to commandLoop.
Wait(p) ==
    /\ status[p] = "wait"
    /\ \E q \in Procs :
          /\ parent[q] = p
          /\ status[q] \notin {"unborn", "reaped"}
          /\ WaitReturns(q)
          /\ status' = [status EXCEPT ![p] = "prompt",
                                      ![q] = IF @ \in Ended THEN "reaped" ELSE @]
          /\ ev' = [Ev(p, "wait") EXCEPT !.child = q]
    /\ command' = [command EXCEPT ![p] = <<>>]
    /\ UNCHANGED <<parent, histfile, nread, eof, cwd, execFailed>>
    /\ ShellUnchanged

(***************************************************************************)
(* Specifications                                                          *)
(***************************************************************************)
NoScan == [UnescapeStart EXCEPT !.stat = "none"]

IdleDecode == dstr = <<>> /\ dst = NoScan /\ dprev = NoScan

IdleHistory == hrun = [pc |-> "idle"]

IdleTokens == tk = [pc |-> "idle"]

IdlePath == pr = [pc |-> "idle"]

IdleShell ==
    /\ status = [p \in Procs |-> "unborn"]
    /\ parent = [p \in Procs |-> 0]
    /\ command = [p \in Procs |-> <<>>]
    /\ histfile = <<>>
    /\ nread = 0
    /\ eof = FALSE
    /\ cwd = <<>>
    /\ execFailed = {}
    /\ ev = NoEv

\* main: the prompt is set up, the history file is cleared and process 1
\* enters commandLoop.
Init ==
    /\ status = [p \in Procs |-> IF p = 1 THEN "prompt" ELSE "unborn"]
    /\ parent = [p \in Procs |-> 0]
    /\ command = [p \in Procs |-> <<>>]
    /\ histfile = <<>>
    /\ nread = 0
    /\ eof = FALSE
    /\ cwd \in Cwds
    /\ execFailed = {}
    /\ ev = NoEv
    /\ IdleDecode
    /\ IdleTokens
    /\ IdlePath
    /\ IdleHistory

Next ==
    \/ \E p \in Procs : WritePrompt(p)
    \/ \E p \in Procs : ReadCommand(p)
    \/ \E p \in Procs : ProcessCommand(p)
    \/ \E p \in Procs : Exec(p)
    \/ \E p \in Procs : ProgramExit(p)
    \/ \E p \in Procs : Wait(p)

Spec == Init /\ [][Next]_vars

\* ---- unescape on every bounded string
DecodeAlphabet ==
    { Ord("\\"), Ord("'"), Ord("1"), Ord("4"), Ord("x"), Ord("X"), Ord("a"), Ord("F") }

\* What precedes the bounded string: nothing, a plain character, a quoted
\* span that has been closed, a double quote that opens a span.
DecodePrefixes == { <<>>, S(<<"g">>), S(<<"'", "g", "'">>), S(<<"\"">>) }

DecodeInputs ==
    { pre \o body : pre \in DecodePrefixes,
                    body \in UNION { [1..n -> DecodeAlphabet] : n \in 0..MaxLen } }

InitDecode ==
    /\ dstr \in DecodeInputs
    /\ dst = UnescapeStart
    /\ dprev = NoScan
    /\ IdleTokens
    /\ IdlePath
    /\ IdleHistory
    /\ IdleShell

\* One pass of the scan loop of unescape, or its return after the loop.
ScanStep ==
    /\ dst.stat = "scan"
    /\ dprev' = dst
    /\ dst' = UnescapeStep(dstr, dst)
    /\ UNCHANGED <<dstr, tk, pr, hrun, status, parent, command, histfile, nread, eof, cwd,
                   execFailed, ev>>

NextDecode == ScanStep

SpecDecode == InitDecode /\ [][NextDecode]_vars

\* ---- getTokens on every bounded string
TokenAlphabet == { Ord(" "), Ord("\t"), Ord("\""), Ord("a") }

\* A command with a double-quoted argument between two plain ones.
QuotedArgument ==
    S(<<" ", " ", "f", "o", "o", " ", "\"", "b", "a", "r", " ", "b", "a", "z", "\"",
        " ", " ", "q", "u", "x">>)

\* A command of n one-letter words.
ManyTokens(n) == [i \in 1..(2 * n - 1) |-> IF i % 2 = 1 THEN Ord("a") ELSE Ord(" ")]

\* The commands with one token less than the token limit, as many, one more.
LimitInputs == { ManyTokens(n) : n \in (TOKEN_LIMIT - 1)..(TOKEN_LIMIT + 1) }

TokenInputs ==
    {QuotedArgument} \cup UNION { [1..n -> TokenAlphabet] : n \in 0..MaxLen }

\* getTokens has called parse_quoted_tokens, which stands before its token
\* loop; the string is followed in memory by its NUL and a heap tail.
InitTokens ==
    /\ \E string \in TokenInputs, tail \in HeapTails :
          tk = [pc |-> "loop", string |-> string, args |-> <<>>, marker |-> -1,
                t |-> TokenStart(string \o <<0>> \o tail)]
    /\ IdleDecode
    /\ IdlePath
    /\ IdleHistory
    /\ IdleShell

TokensUnchanged ==
    UNCHANGED <<dstr, dst, dprev, pr, hrun, status, parent, command, histfile, nread, eof,
                cwd, execFailed, ev>>

\* One pass of the token loop.
TokenPass ==
    /\ tk.pc = "loop"
    /\ At(tk.t.mem, tk.t.p) # 0 /\ Len(tk.t.toks) < TOKEN_LIMIT
    /\ tk' = [tk EXCEPT !.t = TokenLoopBody(tk.t)]
    /\ TokensUnchanged

\* The token loop has ended: parse_quoted_tokens returns the token count
\* and getTokens stores NULL in result[] at that index (marker).
TokenReturn ==
    /\ tk.pc = "loop"
    /\ ~(At(tk.t.mem, tk.t.p) # 0 /\ Len(tk.t.toks) < TOKEN_LIMIT)
    /\ \E t \in {TokenEnd(tk.t)} :
          tk' = [tk EXCEPT !.pc = "done", !.t = t, !.args = TokenStrings(t),
                           !.marker = Len(t.toks)]
    /\ TokensUnchanged

NextTokens ==
    \/ TokenPass
    \/ TokenReturn

SpecTokens == InitTokens /\ [][NextTokens]_vars

\* ---- getTokens as one call, also on commands at the token limit
InitCall ==
    /\ \E string \in TokenInputs \cup LimitInputs, tail \in HeapTails :
          tk = [pc |-> "call", string |-> string, tail |-> tail, args |-> <<>>,
                marker |-> -1, overrun |-> FALSE]
    /\ IdleDecode
    /\ IdlePath
    /\ IdleHistory
    /\ IdleShell

\* getTokens(string, numTokens) from its call to its return.
GetTokensCall ==
    /\ tk.pc = "call"
    /\ \E r \in {getTokens(tk.string, tk.tail)} :
          tk' = [tk EXCEPT !.pc = "done", !.args = r.args, !.marker = r.marker,
                           !.overrun = r.overrun]
    /\ TokensUnchanged

NextCall == GetTokensCall

SpecCall == InitCall /\ [][NextCall]_vars

\* ---- processProcread on file names of every length
Letters(n) == [i \in 1..n |-> Ord("a")]

\* Relative names, names that start with proc/ and absolute names.
PathArgs ==
    UNION { { Letters(n),
              S(<<"p", "r", "o", "c", "/">>) \o Letters(n),
              S(<<"/">>) \o Letters(n) } : n \in 0..MaxName }

InitPath ==
    /\ \E fileName \in PathArgs :
          pr = [pc |-> "call", fileName |-> fileName, filename |-> <<>>, result |-> 0,
                err |-> "", killed |-> FALSE]
    /\ IdleDecode
    /\ IdleTokens
    /\ IdleHistory
    /\ IdleShell

\* processProcread(fileName) from its call to its return.  A path that does
\* not fit in filename[] is written past the end of the array: the process
\* is killed for it, or the write goes unnoticed.
ProcreadCall ==
    /\ pr.pc = "call"
    /\ \E exists \in BOOLEAN, killed \in BOOLEAN :
       \E r \in {processProcread(<<>>, pr.fileName, exists)} :
          pr' = [pr EXCEPT !.pc = "done", !.filename = r.filename, !.result = r.result,
                           !.err = r.err,
                           !.killed = killed /\ Len(r.filename) + 1 > FILENAME_SIZE]
    /\ UNCHANGED <<dstr, dst, dprev, tk, hrun, status, parent, command, histfile, nread,
                   eof, cwd, execFailed, ev>>

NextPath == ProcreadCall

SpecPath == InitPath /\ [][NextPath]_vars

\* ---- the history built-in on a file of n lines and the history line
RECURSIVE HistFile(_)
HistFile(n) ==
    IF n = 0 THEN HistoryCmd \o NL
    ELSE The({<<Ord("a") + n - 1>> \o NL \o HistFile(m) : m \in {n - 1}})

InitHistory ==
    /\ \E n \in 0..MaxHistLines : hrun = HistoryStart(HistFile(n))
    /\ IdleDecode
    /\ IdleTokens
    /\ IdlePath
    /\ IdleShell

HistoryUnchanged ==
    UNCHANGED <<dstr, dst, dprev, tk, pr, status, parent, command, histfile, nread, eof, cwd,
                execFailed, ev>>

HReadEntry ==
    /\ hrun.pc = "read" /\ hrun.lines # <<>>
    /\ hrun' = HistoryStep(hrun, TRUE, FALSE)
    /\ HistoryUnchanged

HDropCurrent ==
    /\ hrun.pc = "read" /\ hrun.lines = <<>>
    /\ hrun' = HistoryStep(hrun, TRUE, FALSE)
    /\ HistoryUnchanged

HLimitEntry ==
    /\ hrun.pc = "limit"
    /\ hrun' = HistoryStep(hrun, TRUE, FALSE)
    /\ HistoryUnchanged

HPrintEntry ==
    /\ hrun.pc = "print"
    /\ \E intact \in BOOLEAN : hrun' = HistoryStep(hrun, intact, FALSE)
    /\ HistoryUnchanged

HDeallocEntry ==
    /\ hrun.pc = "dealloc"
    /\ \E abort \in BOOLEAN : hrun' = HistoryStep(hrun, TRUE, abort)
    /\ HistoryUnchanged

NextHistory ==
    \/ HReadEntry
    \/ HDropCurrent
    \/ HLimitEntry
    \/ HPrintEntry
    \/ HDeallocEntry

SpecHistory == InitHistory /\ [][NextHistory]_vars

(***************************************************************************)
(* Properties                                                              *)
(***************************************************************************)
QuoteChars == {Ord("\""), Ord("'")}

\* The processes a shell process has forked and not yet awaited.
Unawaited(p) == {q \in Procs : parent[q] = p /\ status[q] \notin {"unborn", "reaped"}}

\* C1: after an input line whose decoding fails, the process that read it is
\* still running and stands at the next prompt.
C1_DecodeErrorKeepsShell ==
    (ev.op = "read" /\ ~ev.decoded) => status[ev.pid] = "prompt"

\* C2: a child whose execvp has failed terminates; it never runs the command
\* loop (no prompt, no read of standard input).
C2_ExecFailureEndsChild ==
    \A q \in execFailed : status[q] \in Ended

\* C3: a shell process has at most one child it has not awaited, and while
\* it has one it is blocked in wait: it is not prompting, reading or
\* dispatching.
C3_ParentBlockedOnChild ==
    \A p \in Procs :
        /\ Cardinality(Unawaited(p)) <= 1
        /\ Unawaited(p) # {} => status[p] = "wait"

C3_Witness ==
    \E p \in Procs, q \in Procs :
        /\ parent[q] = p /\ status[p] = "wait"
        /\ status[q] = "read" /\ q \in execFailed

\* The text of a logged line: the line without its newline.
LineText(l) == IF l # <<>> /\ l[Len(l)] = Ord("\n") THEN SubSeq(l, 1, Len(l) - 1) ELSE l

\* The lines logged before the last one of the file.
LoggedBefore(file) ==
    LET ls == FgetsLines(file)
    IN  [i \in 1..(Len(ls) - 1) |-> LineText(ls[i])]

LastOf(seq, k) == SubSeq(seq, Len(seq) - k + 1, Len(seq))

\* C4: with N lines logged before the history line, the history built-in
\* prints exactly the min(N, 10) most recent of them, oldest first, and not
\* the history line itself.
C4_HistoryPrintsLastTen ==
    hrun.pc \in {"dealloc", "done", "crashed"} =>
        LET logged == LoggedBefore(hrun.file)
            k == IF Len(logged) < 10 THEN Len(logged) ELSE 10
        IN  hrun.printed = LastOf(logged, k)

\* C5: a process holding the command exit leaves the loop in that very
\* dispatch and exits with success, no process being forked; a process
\* exits the loop in no other step.
C5_ExitEndsLoop ==
    [][\A p \in Procs :
          /\ (status[p] = "dispatch" /\ command[p] = Exit /\ status'[p] # status[p])
                => /\ status'[p] = "exited"
                   /\ \A q \in Procs : status[q] = "unborn" => status'[q] = "unborn"
          /\ (status[p] # "exited" /\ status'[p] = "exited")
                => status[p] = "dispatch" /\ command[p] = Exit]_vars

C5_Witness ==
    /\ ev.op = "dispatch" /\ ev.cmd = Exit
    /\ status[ev.pid] = "exited"
    /\ nread = 2

\* C6: a command that starts with a quote character is rejected and never
\* attempted: no process is forked for it and no execvp is tried.
C6_LeadingQuoteNeverAttempted ==
    (ev.op \in {"dispatch", "exec"} /\ ev.cmd # <<>> /\ ev.cmd[1] \in QuoteChars)
        => ev.op = "dispatch" /\ ev.child = 0 /\ ev.err = "invalid command"

\* C7: procread opens no file outside its root directory; a path that
\* climbs out of it through .. fails.
C7_ProcreadStaysInRoot ==
    (ev.op = "dispatch" /\ ev.kind = "procread" /\ ev.didOpen) => InsideRoot(ev.opened)

\* The indexes at which the words of a command without quotes start.
WordStarts(cmd) ==
    {i \in 1..Len(cmd) : ~IsBlank(cmd[i]) /\ (i = 1 \/ IsBlank(cmd[i - 1]))}

\* A procread command with exactly one argument, which is a relative path.
OneRelativeArgument(cmd) ==
    /\ Cardinality(WordStarts(cmd)) = 2
    /\ \A i \in WordStarts(cmd) : cmd[i] # Ord("/")

\* C8: procread opens a file only for a command with exactly one argument
\* that does not start with /; for any other procread command it reports an
\* error, opens no file, forks no process and the loop goes on.
C8_ProcreadArguments ==
    (ev.op = "dispatch" /\ ev.kind = "procread") =>
        /\ ev.didOpen => OneRelativeArgument(ev.cmd)
        /\ ~OneRelativeArgument(ev.cmd) =>
              /\ ev.err # "" /\ ~ev.didOpen /\ ev.child = 0
              /\ status[ev.pid] = "prompt"
              /\ \A q \in Procs : parent[q] = ev.pid => status[q] = "reaped"

C8_Witness ==
    /\ ev.op = "dispatch" /\ ev.kind = "procread"
    /\ ev.err = "only relative file paths are supported"
    /\ status[ev.pid] = "prompt"

\* The last scan step started at a backslash outside quotes.
EscapeStep == dprev.stat = "scan" /\ dprev.quoted = 0 /\ At(dstr, dprev.pos) = Ord("\\")

\* The character i places after that backslash.
Esc(i) == At(dstr, dprev.pos + i)

OctalDigits == Ord("0")..Ord("7")

OctalNumber == (Esc(1) - Ord("0")) * 64 + (Esc(2) - Ord("0")) * 8 + (Esc(3) - Ord("0"))

\* C9 as stated: a backslash and three octal digits outside quotes emit one
\* byte equal to the octal number d1*64 + d2*8 + d3; a non-octal second or
\* third character makes decoding fail.
C9_OctalByteIsNumber ==
    (EscapeStep /\ Esc(1) \in OctalDigits) =>
        IF Esc(2) \in OctalDigits /\ Esc(3) \in OctalDigits
        THEN dst.stat = "scan" /\ dst.out = Append(dprev.out, OctalNumber)
        ELSE dst.stat = "null"

\* C9 amended: the byte emitted is the octal number modulo 256 (the number
\* itself when the first digit is at most 3).
C9_OctalByteIsLowEightBits ==
    (EscapeStep /\ Esc(1) \in OctalDigits) =>
        IF Esc(2) \in OctalDigits /\ Esc(3) \in OctalDigits
        THEN dst.stat = "scan" /\ dst.out = Append(dprev.out, OctalNumber % 256)
        ELSE dst.stat = "null"

C9_Witness ==
    /\ EscapeStep /\ dprev.out # <<>>
    /\ Esc(1) = Ord("4") /\ Esc(2) = Ord("1") /\ Esc(3) = Ord("4")
    /\ dst.out = Append(dprev.out, 12)

\* The value of a hex digit in either case, -1 for another character.
HexDigit(c) ==
    CASE c \in Ord("0")..Ord("9") -> c - 48
      [] c \in Ord("a")..Ord("f") -> c - 87
      [] c \in Ord("A")..Ord("F") -> c - 55
      [] OTHER -> -1

\* C10: a backslash, x or X and two hex digits of either case, outside
\* quotes, emit one byte equal to the two-digit hex number; a non-hex
\* character in either place makes decoding fail.
C10_HexByteIsNumber ==
    (EscapeStep /\ Esc(1) \in {Ord("x"), Ord("X")}) =>
        IF HexDigit(Esc(2)) >= 0 /\ HexDigit(Esc(3)) >= 0
        THEN dst.stat = "scan"
             /\ dst.out = Append(dprev.out, 16 * HexDigit(Esc(2)) + HexDigit(Esc(3)))
        ELSE dst.stat = "null"

C10_Witness ==
    /\ EscapeStep /\ dprev.out # <<>>
    /\ Esc(1) = Ord("X") /\ Esc(2) = Ord("a") /\ Esc(3) = Ord("F")
    /\ dst.out = Append(dprev.out, 175)

\* The last scan step ended the scan.
ScanEnded == dprev.stat = "scan" /\ dst.stat # "scan"

\* The last scan step read the NUL that ends the input.
ReadEndOfInput == dprev.pos > Len(dstr) \/ dst.pos - 1 > Len(dstr)

HasQuotedSpan(s) ==
    \E i \in 1..Len(s), j \in 1..Len(s) : i < j /\ s[i] = Ord("\"") /\ s[j] = Ord("\"")

\* C12: the tokens of a string with a double-quoted span contain no quote
\* character, and "  foo "bar baz"  qux" gives the tokens foo, bar baz, qux.
C12_TokensHoldNoQuote ==
    (tk.pc = "done" /\ HasQuotedSpan(tk.string)) =>
        /\ \A i \in DOMAIN tk.args : \A k \in DOMAIN tk.args[i] : tk.args[i][k] # Ord("\"")
        /\ tk.string = QuotedArgument =>
              tk.args = << S(<<"f", "o", "o">>),
                           S(<<"b", "a", "r", " ", "b", "a", "z">>),
                           S(<<"q", "u", "x">>) >>

\* C13: whenever execvp is called, argument 0 of the argument vector is the
\* program name it is called with.
C13_ArgumentZeroIsProgram ==
    ev.op = "exec" => (ev.args # <<>> /\ ev.args[1] = ev.program)

\* C14: a process whose read meets end-of-input at once ends its command
\* loop: it neither dispatches what the read returned nor prompts again.
C14_EndOfInputEndsLoop ==
    (ev.op = "read" /\ ev.got = "none") => status[ev.pid] = "exited"

\* C15: when unescape returns NULL it has written exactly one line to the
\* error stream.
C15_DecodeFailureHasDiagnostic ==
    dst.stat = "null" => Len(dst.errf) = 1

\* The string holds no backslash and no quote character.
Plain(s) == \A i \in DOMAIN s : s[i] \notin QuoteChars \cup {Ord("\\")}

\* C16: on a string without backslash and quote character unescape succeeds,
\* and unescape of its result succeeds with the same result.
C16_PlainDecodeIdempotent ==
    (dst.stat \in {"done", "null"} /\ Plain(dstr)) =>
        /\ dst.stat = "done"
        /\ \E again \in {Unescape(dst.out)} : again.stat = "done" /\ again.out = dst.out

C16_Witness ==
    /\ dst.stat = "done" /\ dstr = S(<<"g", "x", "1", "a", "F">>)
    /\ Unescape(dst.out).out = dstr

\* The last scan step started at a backslash inside a quoted span, with a
\* character after it.
QuotedEscapeStep ==
    /\ dprev.stat = "scan" /\ dprev.quoted # 0
    /\ At(dstr, dprev.pos) = Ord("\\") /\ Esc(1) # 0

\* C17: inside a quoted span a backslash followed by the matching quote emits
\* the quote alone, a backslash followed by a backslash emits one backslash,
\* and a backslash followed by another character emits the backslash and
\* that character.
C17_QuotedEscapes ==
    QuotedEscapeStep =>
        /\ dst.stat = "scan" /\ dst.quoted = dprev.quoted /\ dst.pos = dprev.pos + 2
        /\ dst.out = dprev.out \o
                (IF Esc(1) = dprev.quoted THEN <<Esc(1)>>
                 ELSE IF Esc(1) = Ord("\\") THEN <<Ord("\\")>>
                 ELSE <<Ord("\\"), Esc(1)>>)

\* The first whitespace-delimited token of a trimmed command.
FirstWord(cmd) ==
    LET ends == {i \in 1..Len(cmd) : IsSpace(cmd[i])}
    IN  IF ends = {} THEN cmd
        ELSE SubSeq(cmd, 1, (CHOOSE i \in ends : \A j \in ends : i <= j) - 1)

\* C18: a command whose first token is exit, history or procread is routed to
\* that built-in whatever follows the token; for exit the loop ends and no
\* process is forked.
C18_FirstTokenRoutes ==
    ev.op = "dispatch" =>
        /\ FirstWord(ev.cmd) = Exit =>
               ev.kind = "exit" /\ ev.child = 0 /\ status[ev.pid] = "exited"
        /\ FirstWord(ev.cmd) = HistoryCmd => ev.kind = "history"
        /\ FirstWord(ev.cmd) = Procread => ev.kind = "procread"

\* The names of the built-in commands.
BuiltIns == {Exit, HistoryCmd, Procread}

\* C19: the dispatch of a non-empty command that is not a built-in calls
\* fork exactly once; the dispatch of a built-in or of an empty command
\* calls it never and creates no process.
C19_OneForkPerExternalCommand ==
    ev.op = "dispatch" =>
        IF ev.cmd # <<>> /\ FirstWord(ev.cmd) \notin BuiltIns
        THEN ev.forks = 1
        ELSE ev.forks = 0 /\ ev.child = 0

\* C20: the history file holds the raw lines read so far, each once and in
\* the order read: a step that reads a line appends that line, as read, to
\* the file, whatever becomes of the line afterwards; a read that meets
\* end-of-input and any other step leave the file as it is.
C20_HistoryHoldsLinesRead ==
    [][/\ nread' = nread => histfile' = histfile
       /\ nread' # nread =>
             /\ ev'.op = "read"
             /\ histfile' = histfile \o (IF ev'.got = "none" THEN <<>> ELSE ev'.cmd)]_vars

\* C21: getTokens returns at most TOKEN_LIMIT tokens and stores the NULL
\* marker directly after the last token, at an index inside the array of
\* TOKEN_LIMIT pointers it allocated.
C21_MarkerInsideTokenArray ==
    tk.pc = "done" =>
        /\ Len(tk.args) <= TOKEN_LIMIT
        /\ tk.marker = Len(tk.args)
        /\ tk.marker < TOKEN_LIMIT

\* C22: the scan position of the tokenizer is never past the NUL that ends
\* the string it was given.
C22_ScanStaysInString ==
    tk.pc \in {"loop", "done"} => tk.t.p <= Len(tk.string) + 1

\* C23: every entry the history built-in has printed was allocated and not
\* yet freed when it was printed, and no entry is freed more than once.
C23_HistoryEntriesLive ==
    hrun.pc # "idle" =>
        /\ \A a \in DOMAIN hrun.frees : hrun.frees[a] <= 1
        /\ hrun.pc = "print" =>
               \A k \in 1..hrun.i :
                   hrun.result[k] # 0 /\ hrun.frees[hrun.result[k]] = 0

\* The processes that run the command loop unblocked.
InLoop == {p \in Procs : status[p] \in {"prompt", "read", "dispatch"}}

\* C24: at most one process is prompting, reading or dispatching, and every
\* process with a live child is blocked in wait.
C24_OneProcessInLoop ==
    /\ Cardinality(InLoop) <= 1
    /\ \A p \in Procs, q \in Procs : (parent[q] = p /\ Live(q)) => status[p] = "wait"

C24_Witness ==
    /\ status = <<"wait", "wait", "read">> \o [i \in 1..(MaxProcs - 3) |-> "unborn"]
    /\ execFailed = {2, 3}

\* C25: the path processProcread formats for an accepted file name fits,
\* with its terminating NUL, in the FILENAME_SIZE bytes of filename[].
C25_PathFitsBuffer ==
    (pr.pc = "done" /\ pr.err \notin {"file name missing",
                                       "only relative file paths are supported"})
        => Len(pr.filename) + 1 <= FILENAME_SIZE

\* The input bytes the scan has consumed: those before *str, the NUL that
\* ends the input not counted.
Consumed == IF dst.pos - 1 <= Len(dstr) THEN dst.pos - 1 ELSE Len(dstr)

\* C26: at every step of the scan the bytes written to the output are at
\* most the input bytes consumed, so the output and its NUL fit in the
\* strlen(str) + 1 bytes allocated for it.
C26_OutputWithinInput ==
    dst.stat # "none" =>
        /\ Len(dst.out) <= Consumed
        /\ Len(dst.out) + 1 <= Len(dstr) + 1

C26_Witness ==
    /\ QuotedEscapeStep /\ dst.stat = "scan"
    /\ Len(dst.out) = Len(dprev.out) + 2
    /\ Len(dst.out) = Consumed - 1

====
